---- MODULE Spec2Model ----
(***************************************************************************)
(* Model of learn_wgpu (src/src/lib.rs): the winit application shell App   *)
(* and the per-window render State.  The windowing service and the GPU    *)
(* are the environment: they choose window sizes, the events delivered,   *)
(* and the result of every surface-texture acquisition.                   *)
(***************************************************************************)
EXTENDS Integers, Sequences, FiniteSets, TLC

\* ------------------------------------------------------------------ bounds
MaxDim == 1          \* window widths the windowing service reports: 0 .. MaxDim
MaxPos == 0          \* cursor x coordinates: 0 .. MaxPos

\* ------------------------------------------------------- program constants
InitWidth == 800     \* with_inner_size(PhysicalSize::new(800, 500))
InitHeight == 500
ClearTenths == 1     \* clear_color r, g, b = 0.1, in tenths
AlphaTenths == 10    \* clear_color a = 1.0, in tenths
DrawVertices == 3    \* render_pass.draw(0..3, 0..1)

Windows == {1, 2}    \* 1 = `window`, 2 = `window2` of App::resumed
\* Sizes the windowing service reports: the requested size, and every width
\* 0 .. MaxDim with height 0 or width + 1 (so 0x0, 0x1, 1x0, 1x2, ...).
RequestedSize == [width |-> InitWidth, height |-> InitHeight]
Sizes == {RequestedSize} \cup
         UNION {{[width |-> w, height |-> h] : h \in {0, w + 1}} : w \in 0 .. MaxDim}
\* Cursor positions: x in 0 .. MaxPos on the row y = MaxPos + 1
Positions == [x : 0 .. MaxPos, y : {MaxPos + 1}]
KeyCodes == {"Escape", "Space"}
Targets == {"native", "wasm32"}

\* wgpu::SurfaceError variants, and "Ok" for a successful acquisition
SurfaceErrors == {"Timeout", "Outdated", "Lost", "OutOfMemory"}
SurfaceResults == {"Ok"} \cup SurfaceErrors

None == [tag |-> "None"]

\* One call made by a handler on a collaborator (surface, queue, window,
\* event loop) or on a State method; `win` is the window the callee belongs to.
Call(op, win, a, b, res) ==
    [op |-> op, win |-> win, a |-> a, b |-> b, res |-> res, color |-> None,
     configured |-> FALSE, stale |-> FALSE]

\* A window event as winit delivers it: `win` is the WindowId it is addressed to.
Event(kind, win, a, b, code, pressed) ==
    [kind |-> kind, win |-> win, a |-> a, b |-> b, code |-> code, pressed |-> pressed]

VARIABLES
    target,         \* cfg(target_arch): "native" or "wasm32"
    phase,          \* "new" | "running" | "stopped" | "exit1" | "panicked"
    state,          \* App.state  : None or a State record
    state2,         \* App.state2 : None or a State record
    proxy,          \* App.proxy is Some (wasm32 only)
    inflight,       \* wasm32: "none" | "building" | "sent" (State on its way through the proxy)
    winSize,        \* window.inner_size() of each window, None before creation
    redrawPending,  \* windows with an undelivered request_redraw
    exiting,        \* event_loop.exit() has been signalled
    attempt,        \* parity of the number of State::render calls made so far
    lastEvent,      \* the callback the event loop ran last
    calls           \* the calls that callback made, in order

vars == <<target, phase, state, state2, proxy, inflight, winSize,
          redrawPending, exiting, attempt, lastEvent, calls>>

\* ------------------------------------------------------------------ State
\* State::new, on success.  The surface field carries what the GPU side
\* knows about the presentation surface the State owns: whether and how it
\* was configured, and whether it was reported Lost or Outdated since.
State_new(window, size, logging) ==
    [ surface |-> [configured |-> FALSE, width |-> 0, height |-> 0,
                   stale |-> FALSE],
      config |-> [format |-> "format0", width |-> size.width,
                  height |-> size.height, present_mode |-> "present_mode0"],
      is_surface_configured |-> FALSE,
      window |-> window,
      clear_color |-> [r |-> ClearTenths, g |-> ClearTenths,
                       b |-> ClearTenths, a |-> AlphaTenths],
      logging |-> logging,
      mouse_position |-> None ]

\* A method call in progress: the receiver, the calls made so far and the
\* value returned.
Ctx(self, cs) == [self |-> self, calls |-> cs, ret |-> "Ok"]

\* F(v), with v evaluated once
Bind(v, F(_)) == CHOOSE r \in {F(x) : x \in {v}} : TRUE

\* A call on the presentation surface or on the queue feeding it; it records
\* whether the surface had been configured, and whether it was Lost or
\* Outdated, when the call was made.
SurfaceCall(c, op, res) ==
    [Call(op, c.self.window, 0, 0, res)
        EXCEPT !.configured = c.self.surface.configured,
               !.stale = c.self.surface.stale]

\* surface.configure(&device, &config)
configure(ctx) ==
    Bind(ctx, LAMBDA c :
    [c EXCEPT !.self.surface.configured = TRUE,
              !.self.surface.stale = FALSE,
              !.self.surface.width = c.self.config.width,
              !.self.surface.height = c.self.config.height,
              !.calls = c.calls \o << Call("configure", c.self.window,
                                          c.self.config.width,
                                          c.self.config.height, "") >>])

\* resize forgetting that the surface was configured when the size is empty
resize_unconfigures(c, width, height) ==
    LET c0 == [c EXCEPT !.calls = c.calls \o
                          << Call("resize", c.self.window, width, height, "") >>]
    IN IF width > 0 /\ height > 0
       THEN LET c1 == [c0 EXCEPT !.self.config.width = width,
                                 !.self.config.height = height]
                c2 == configure(c1)
            IN [c2 EXCEPT !.self.is_surface_configured = TRUE]
       ELSE [c0 EXCEPT !.self.is_surface_configured = FALSE]

\* resize storing the two dimensions the wrong way round
resize_swapped(c, width, height) ==
    LET c0 == [c EXCEPT !.calls = c.calls \o
                          << Call("resize", c.self.window, width, height, "") >>]
    IN IF width > 0 /\ height > 0
       THEN LET c1 == [c0 EXCEPT !.self.config.width = height,
                                 !.self.config.height = width]
                c2 == configure(c1)
            IN [c2 EXCEPT !.self.is_surface_configured = TRUE]
       ELSE c0

\* resize guarding with `||` instead of `&&`
resize_either(c, width, height) ==
    LET c0 == [c EXCEPT !.calls = c.calls \o
                          << Call("resize", c.self.window, width, height, "") >>]
    IN IF width > 0 \/ height > 0
       THEN LET c1 == [c0 EXCEPT !.self.config.width = width,
                                 !.self.config.height = height]
                c2 == configure(c1)
            IN [c2 EXCEPT !.self.is_surface_configured = TRUE]
       ELSE c0

resize(ctx, width, height) ==
    Bind(ctx, LAMBDA c :
    LET c0 == [c EXCEPT !.calls = c.calls \o
                          << Call("resize", c.self.window, width, height, "") >>]
    IN IF width > 0 /\ height > 0
       THEN LET c1 == [c0 EXCEPT !.self.config.width = width,
                                 !.self.config.height = height]
                c2 == configure(c1)
            IN [c2 EXCEPT !.self.is_surface_configured = TRUE]
       ELSE c0)

\* window.request_redraw()
request_redraw(ctx) ==
    Bind(ctx, LAMBDA c :
    [c EXCEPT !.calls = c.calls \o
                << Call("request_redraw", c.self.window, 0, 0, "") >>])

\* surface.get_current_texture(): the GPU decides the result `res`
get_current_texture(ctx, res) ==
    Bind(ctx, LAMBDA c :
    [c EXCEPT !.self.surface.stale =
                 (c.self.surface.stale \/ res \in {"Lost", "Outdated"}),
              !.calls = c.calls \o << SurfaceCall(c, "get_current_texture", res) >>])

\* the frame presented before its command buffer is submitted
draw_frame_presents_first(c) ==
    [c EXCEPT !.calls = c.calls \o
                << [Call("begin_render_pass", c.self.window, 0, 0, "")
                        EXCEPT !.color = c.self.clear_color],
                   Call("set_pipeline", c.self.window, 0, 0, "render_pipeline"),
                   Call("draw", c.self.window, 0, DrawVertices, ""),
                   SurfaceCall(c, "present", ""),
                   SurfaceCall(c, "submit", "") >>]

\* encoder.begin_render_pass .. output.present() of State::render
draw_frame(ctx) ==
    Bind(ctx, LAMBDA c :
    [c EXCEPT !.calls = c.calls \o
                << [Call("begin_render_pass", c.self.window, 0, 0, "")
                        EXCEPT !.color = c.self.clear_color],
                   Call("set_pipeline", c.self.window, 0, 0, "render_pipeline"),
                   Call("draw", c.self.window, 0, DrawVertices, ""),
                   SurfaceCall(c, "submit", ""),
                   SurfaceCall(c, "present", "") >>])

\* State::render; the last call recorded is the value it returns
return(ctx, ret) ==
    Bind(ctx, LAMBDA c :
    [c EXCEPT !.ret = ret,
              !.calls = c.calls \o << Call("return", c.self.window, 0, 0, ret) >>])

\* render asking for the next redraw only once a frame was presented
render_redraw_on_success(c, res) ==
    LET c1 == [c EXCEPT !.calls = c.calls \o
                          << Call("render", c.self.window, 0, 0, "") >>]
    IN IF ~ c1.self.is_surface_configured
       THEN return(c1, "Ok")
       ELSE LET c2 == get_current_texture(c1, res)
            IN IF res # "Ok"
               THEN return(c2, res)
               ELSE return(request_redraw(draw_frame(c2)), "Ok")

\* render asking for the next redraw after the is_surface_configured guard
render_redraw_after_guard(c, res) ==
    LET c1 == [c EXCEPT !.calls = c.calls \o
                          << Call("render", c.self.window, 0, 0, "") >>]
    IN IF ~ c1.self.is_surface_configured
       THEN return(c1, "Ok")
       ELSE LET c2 == get_current_texture(request_redraw(c1), res)
            IN IF res # "Ok"
               THEN return(c2, res)
               ELSE return(draw_frame(c2), "Ok")

\* render without the is_surface_configured guard
render_unguarded(c, res) ==
    LET c0 == [c EXCEPT !.calls = c.calls \o
                          << Call("render", c.self.window, 0, 0, "") >>]
        c1 == request_redraw(c0)
        c2 == get_current_texture(c1, res)
    IN IF res # "Ok"
       THEN return(c2, res)
       ELSE return(draw_frame(c2), "Ok")

\* render with the is_surface_configured guard inverted
render_inverted(c, res) ==
    LET c0 == [c EXCEPT !.calls = c.calls \o
                          << Call("render", c.self.window, 0, 0, "") >>]
        c1 == request_redraw(c0)
    IN IF c1.self.is_surface_configured
       THEN return(c1, "Ok")
       ELSE LET c2 == get_current_texture(c1, res)
            IN IF res # "Ok"
               THEN return(c2, res)
               ELSE return(draw_frame(c2), "Ok")

render(ctx, res) ==
    Bind(ctx, LAMBDA c :
    Bind(request_redraw([c EXCEPT !.calls = c.calls \o
                           << Call("render", c.self.window, 0, 0, "") >>]),
         LAMBDA c1 :
       IF ~ c1.self.is_surface_configured
       THEN return(c1, "Ok")
       ELSE LET c2 == get_current_texture(c1, res)
            IN IF res # "Ok"
               THEN return(c2, res)
               ELSE return(draw_frame(c2), "Ok")))

\* handle_key not looking at is_pressed
handle_key_any_state(c, code, is_pressed) ==
    LET c0 == [c EXCEPT !.calls = c.calls \o
                 << Call("handle_key", c.self.window, 0, 0, code) >>]
    IN IF code = "Escape"
       THEN [c0 EXCEPT !.calls = c0.calls \o
                          << Call("exit", c.self.window, 0, 0, "") >>]
       ELSE c0

handle_key(ctx, code, is_pressed) ==
    Bind(ctx, LAMBDA c :
    LET c0 == [c EXCEPT !.calls = c.calls \o
                 << Call("handle_key", c.self.window, 0, 0, code) >>]
    IN IF code = "Escape" /\ is_pressed
       THEN [c0 EXCEPT !.calls = c0.calls \o
                          << Call("exit", c.self.window, 0, 0, "") >>]
       ELSE c0)

\* CursorMoved wired to the handler that turns the position into the red and
\* green channels of the clear colour
handle_mouse_moved2_recolours(c, position) ==
    [c EXCEPT !.self.clear_color.r = position.x,
              !.self.clear_color.g = position.y,
              !.calls = c.calls \o
                 << Call("handle_mouse_moved", c.self.window,
                         position.x, position.y, "") >>]

handle_mouse_moved2(ctx, position) ==
    Bind(ctx, LAMBDA c :
    [c EXCEPT !.self.mouse_position = position,
              !.calls = c.calls \o
                 << Call("handle_mouse_moved2", c.self.window,
                         position.x, position.y, "") >>])

update(ctx) ==
    Bind(ctx, LAMBDA c :
    [c EXCEPT !.calls = c.calls \o << Call("update", c.self.window, 0, 0, "") >>])

\* ------------------------------------------------------------------- App
\* the CloseRequested arm signalling the event loop to exit
close_requested_exits(c) ==
    [c EXCEPT !.calls = c.calls \o << Call("println", 0, 0, 0, ""),
                                      Call("exit", 0, 0, 0, "") >>]

\* WindowEvent::CloseRequested arm of App::window_event
close_requested(ctx) ==
    Bind(ctx, LAMBDA c :
    [c EXCEPT !.calls = c.calls \o << Call("println", 0, 0, 0, "") >>])

\* the RedrawRequested arm leaving the event loop on OutOfMemory
redraw_requested_oom_exits(c, res, sizes) ==
    LET c1 == render(update(c), res)
    IN IF c1.ret = "Ok"
       THEN c1
       ELSE IF c1.ret \in {"Lost", "Outdated"}
            THEN LET size == sizes[c1.self.window]
                 IN resize(c1, size.width, size.height)
            ELSE IF c1.ret = "OutOfMemory"
                 THEN [c1 EXCEPT !.calls = c1.calls \o
                              << Call("log_error", 0, 0, 0, c1.ret),
                                 Call("exit", 0, 0, 0, "") >>]
                 ELSE [c1 EXCEPT !.calls = c1.calls \o
                              << Call("log_error", 0, 0, 0, c1.ret) >>]

\* the RedrawRequested arm recovering from Lost only
redraw_requested_lost_only(c, res, sizes) ==
    LET c1 == render(update(c), res)
    IN IF c1.ret = "Ok"
       THEN c1
       ELSE IF c1.ret = "Lost"
            THEN LET size == sizes[c1.self.window]
                 IN resize(c1, size.width, size.height)
            ELSE [c1 EXCEPT !.calls = c1.calls \o
                              << Call("log_error", 0, 0, 0, c1.ret) >>]

\* the RedrawRequested arm recovering with the stored configuration's size
redraw_requested_stored_size(c, res, sizes) ==
    LET c1 == render(update(c), res)
    IN IF c1.ret = "Ok"
       THEN c1
       ELSE IF c1.ret \in {"Lost", "Outdated"}
            THEN resize(c1, c1.self.config.width, c1.self.config.height)
            ELSE [c1 EXCEPT !.calls = c1.calls \o
                              << Call("log_error", 0, 0, 0, c1.ret) >>]

\* WindowEvent::RedrawRequested arm of App::window_event
redraw_requested(ctx, res, sizes) ==
    Bind(render(update(ctx), res), LAMBDA c1 :
       IF c1.ret = "Ok"
       THEN c1
       ELSE IF c1.ret \in {"Lost", "Outdated"}
            THEN LET size == sizes[c1.self.window]
                 IN resize(c1, size.width, size.height)
            ELSE [c1 EXCEPT !.calls = c1.calls \o
                              << Call("log_error", 0, 0, 0, c1.ret) >>])

\* window_event matching the event before it looks for the State, so that an
\* Escape key-down exits also while there is none
window_event_matches_first(app, event, res, sizes) ==
    IF app.state = None
    THEN [state |-> app.state, state2 |-> app.state2,
          calls |-> IF event.kind = "KeyboardInput" /\ event.code = "Escape"
                       /\ event.pressed
                    THEN << Call("exit", event.win, 0, 0, "") >>
                    ELSE << >>]
    ELSE
      LET c == Ctx(app.state, << >>)
          r == CASE event.kind = "CloseRequested" -> close_requested(c)
                 [] event.kind = "Resized" -> resize(c, event.a, event.b)
                 [] event.kind = "RedrawRequested" -> redraw_requested(c, res, sizes)
                 [] event.kind = "KeyboardInput" /\ event.code # "Unidentified" ->
                      handle_key(c, event.code, event.pressed)
                 [] event.kind = "CursorMoved" ->
                      handle_mouse_moved2(c, [x |-> event.a, y |-> event.b])
                 [] OTHER -> c
      IN [state |-> r.self, state2 |-> app.state2, calls |-> r.calls]

\* window_event picking the State by the WindowId of the event
window_event_by_id(app, event, res, sizes) ==
    LET target_state == IF event.win = 1 THEN app.state ELSE app.state2
    IN IF target_state = None
       THEN [state |-> app.state, state2 |-> app.state2, calls |-> << >>]
       ELSE
         LET c == Ctx(target_state, << >>)
             r == CASE event.kind = "CloseRequested" -> close_requested(c)
                    [] event.kind = "Resized" -> resize(c, event.a, event.b)
                    [] event.kind = "RedrawRequested" -> redraw_requested(c, res, sizes)
                    [] event.kind = "KeyboardInput" /\ event.code # "Unidentified" ->
                         handle_key(c, event.code, event.pressed)
                    [] event.kind = "CursorMoved" ->
                         handle_mouse_moved2(c, [x |-> event.a, y |-> event.b])
                    [] OTHER -> c
         IN [state |-> IF event.win = 1 THEN r.self ELSE app.state,
             state2 |-> IF event.win = 1 THEN app.state2 ELSE r.self,
             calls |-> r.calls]

\* App::window_event: `app` holds self.state and self.state2, `res` is the
\* result the GPU gives a surface-texture acquisition made while handling,
\* `sizes` the windows' current inner sizes.  Returns the two fields
\* afterwards and the calls made.  The WindowId of the event is not read.
window_event(app, event, res, sizes) ==
    IF app.state = None
    THEN [state |-> app.state, state2 |-> app.state2, calls |-> << >>]
    ELSE
      LET c == Ctx(app.state, << >>)
      IN Bind(CASE event.kind = "CloseRequested" -> close_requested(c)
                [] event.kind = "Resized" -> resize(c, event.a, event.b)
                [] event.kind = "RedrawRequested" -> redraw_requested(c, res, sizes)
                [] event.kind = "KeyboardInput" /\ event.code # "Unidentified" ->
                     handle_key(c, event.code, event.pressed)
                [] event.kind = "CursorMoved" ->
                     handle_mouse_moved2(c, [x |-> event.a, y |-> event.b])
                [] OTHER -> c,
              LAMBDA r : [state |-> r.self, state2 |-> app.state2, calls |-> r.calls])

HasCall(cs, op) == \E i \in 1 .. Len(cs) : cs[i].op = op

\* ---------------------------------------------------------------- actions
Init ==
    /\ target \in Targets
    /\ phase = "new"
    /\ state = None
    /\ state2 = None
    /\ proxy = (target = "wasm32")
    /\ inflight = None
    /\ winSize = [w \in Windows |-> None]
    /\ redrawPending = [w \in Windows |-> FALSE]
    /\ exiting = FALSE
    /\ attempt = 0
    /\ lastEvent = Event("App::new", 0, 0, 0, "", FALSE)
    /\ calls = << >>

\* pollster::block_on(State::new(window, true)) as resumed matches on it
\* (the call records in `a` which window it is for): on Err the error is
\* printed and the process exits with status 1
NewCalls(window, result) ==
    IF result = "Err"
    THEN << Call("State::new", 0, window, 0, "Err"),
            Call("println", 0, 0, 0, "Err"),
            Call("exit1", 0, 0, 0, "") >>
    ELSE << Call("State::new", 0, window, 0, "Ok") >>

\* resumed going on without a Render State when State::new fails
resumed_native_survives(new1, new2) ==
    /\ target = "native"
    /\ phase = "new"
    /\ winSize' = [w \in Windows |-> RequestedSize]
    /\ state' = IF new1 = "Err" THEN None ELSE State_new(1, RequestedSize, TRUE)
    /\ state2' = IF new2 = "Err" THEN None ELSE State_new(2, RequestedSize, TRUE)
    /\ phase' = "running"
    /\ calls' = << Call("State::new", 0, 1, 0, new1), Call("State::new", 0, 2, 0, new2) >>
    /\ lastEvent' = Event("resumed", 0, 0, 0, "", FALSE)
    /\ UNCHANGED <<target, proxy, inflight, redrawPending, exiting, attempt>>

\* App::resumed, native target; new1/new2: does State::new succeed
resumed_native(new1, new2) ==
    /\ target = "native"
    /\ phase = "new"
    /\ winSize' = [w \in Windows |-> RequestedSize]
    /\ IF new1 = "Err"
       THEN /\ phase' = "exit1"
            /\ calls' = NewCalls(1, new1)
            /\ UNCHANGED <<state, state2>>
       ELSE /\ state' = State_new(1, RequestedSize, TRUE)
            /\ calls' = NewCalls(1, new1) \o NewCalls(2, new2)
            /\ IF new2 = "Err"
               THEN /\ phase' = "exit1"
                    /\ UNCHANGED state2
               ELSE /\ state2' = State_new(2, RequestedSize, TRUE)
                    /\ phase' = "running"
    /\ lastEvent' = Event("resumed", 0, 0, 0, "", FALSE)
    /\ UNCHANGED <<target, proxy, inflight, redrawPending, exiting, attempt>>

Building == [tag |-> "Building"]

\* App::resumed, wasm32 target
resumed_wasm ==
    /\ target = "wasm32"
    /\ phase = "new"
    /\ winSize' = [w \in Windows |-> RequestedSize]
    /\ phase' = "running"
    /\ proxy' = FALSE
    /\ inflight' = IF proxy THEN Building ELSE inflight
    /\ lastEvent' = Event("resumed", 0, 0, 0, "", FALSE)
    /\ calls' = << >>
    /\ UNCHANGED <<target, state, state2, redrawPending, exiting, attempt>>

\* the task spawned by resumed: State::new(window).await, then send_event
spawn_local(new1) ==
    /\ phase = "running"
    /\ inflight = Building
    /\ IF new1 = "Err"
       THEN /\ phase' = "panicked"
            /\ inflight' = None
       ELSE /\ inflight' = State_new(1, winSize[1], TRUE)
            /\ UNCHANGED phase
    /\ lastEvent' = Event("spawn_local", 0, 0, 0, "", FALSE)
    /\ calls' = << >>
    /\ UNCHANGED <<target, state, state2, proxy, winSize, redrawPending, exiting, attempt>>

\* App::user_event
user_event ==
    /\ phase = "running"
    /\ inflight \notin {None, Building}
    /\ LET c == IF target = "wasm32"
                THEN resize(request_redraw(Ctx(inflight, << >>)),
                            winSize[inflight.window].width,
                            winSize[inflight.window].height)
                ELSE Ctx(inflight, << >>)
       IN /\ state' = c.self
          /\ calls' = c.calls
          /\ redrawPending' = [w \in Windows |-> redrawPending[w] \/
                                 \E i \in 1 .. Len(c.calls) :
                                    c.calls[i].op = "request_redraw" /\ c.calls[i].win = w]
    /\ inflight' = None
    /\ lastEvent' = Event("user_event", 0, 0, 0, "", FALSE)
    /\ UNCHANGED <<target, phase, state2, proxy, winSize, exiting, attempt>>

\* the event loop runs App::window_event for `event`
Dispatch(event, res) ==
    /\ phase = "running"
    /\ lastEvent' = event
    /\ \E r \in {window_event([state |-> state, state2 |-> state2], event, res, winSize)} :
          /\ state' = r.state
          /\ state2' = r.state2
          /\ calls' = r.calls
          /\ redrawPending' =
               [w \in Windows |->
                  (redrawPending[w] /\ ~ (event.kind = "RedrawRequested" /\ event.win = w))
                  \/ \E i \in 1 .. Len(r.calls) :
                        r.calls[i].op = "request_redraw" /\ r.calls[i].win = w]
          /\ exiting' = (exiting \/ HasCall(r.calls, "exit"))
          /\ attempt' = IF HasCall(r.calls, "render") THEN 1 - attempt ELSE attempt
    /\ UNCHANGED <<target, phase, proxy, inflight, winSize>>

CloseRequested(w) == Dispatch(Event("CloseRequested", w, 0, 0, "", FALSE), "Ok")
Resized(w, size) == Dispatch(Event("Resized", w, size.width, size.height, "", FALSE), "Ok")
RedrawRequested(w, res) == Dispatch(Event("RedrawRequested", w, 0, 0, "", FALSE), res)
KeyboardInput(w, code, pressed) == Dispatch(Event("KeyboardInput", w, 0, 0, code, pressed), "Ok")
CursorMoved(w, pos) == Dispatch(Event("CursorMoved", w, pos.x, pos.y, "", FALSE), "Ok")
Focused(w) == Dispatch(Event("Focused", w, 0, 0, "", FALSE), "Ok")

\* The windowing service changes the inner size of `window`.  (The inner
\* size of window2 is read by State::new only, so it is left as created.)
SetInnerSize(size) ==
    /\ phase = "running"
    /\ winSize[1] # size
    /\ winSize' = [winSize EXCEPT ![1] = size]
    /\ lastEvent' = Event("SetInnerSize", 1, size.width, size.height, "", FALSE)
    /\ calls' = << >>
    /\ UNCHANGED <<target, phase, state, state2, proxy, inflight, redrawPending, exiting, attempt>>

\* run_app returns once exit was signalled
run_app_return ==
    /\ phase = "running"
    /\ exiting
    /\ phase' = "stopped"
    /\ lastEvent' = Event("run_app_return", 0, 0, 0, "", FALSE)
    /\ calls' = << >>
    /\ UNCHANGED <<target, state, state2, proxy, inflight, winSize, redrawPending, exiting, attempt>>

Next ==
    \/ \E n1, n2 \in {"Ok", "Err"} : resumed_native(n1, n2)
    \/ resumed_wasm
    \/ \E n1 \in {"Ok", "Err"} : spawn_local(n1)
    \/ user_event
    \/ \E w \in Windows : CloseRequested(w)
    \/ \E w \in Windows, size \in Sizes : Resized(w, size)
    \/ \E w \in Windows, res \in SurfaceResults : RedrawRequested(w, res)
    \/ \E w \in Windows, code \in KeyCodes \cup {"Unidentified"}, pressed \in BOOLEAN :
          KeyboardInput(w, code, pressed)
    \/ \E w \in Windows, pos \in Positions : CursorMoved(w, pos)
    \/ \E w \in Windows : Focused(w)
    \/ \E size \in Sizes : SetInnerSize(size)
    \/ run_app_return

Spec == Init /\ [][Next]_vars

\* The windowing service delivers a RedrawRequested event for a redraw that
\* window.request_redraw() asked for.
DeliverRedraw ==
    \E w \in Windows, res \in SurfaceResults :
        redrawPending[w] /\ RedrawRequested(w, res)

\* Spec, with every requested redraw eventually delivered
LiveSpec == Init /\ [][Next]_vars /\ WF_vars(DeliverRedraw)

\* ----------------------------------------------------------- vocabulary
\* The fields of a State the program itself reads and writes.
Fields(s) ==
    [config |-> s.config, is_surface_configured |-> s.is_surface_configured,
     window |-> s.window, clear_color |-> s.clear_color,
     logging |-> s.logging, mouse_position |-> s.mouse_position]

\* How the GPU side has the surface of a State configured.
SurfaceConfig(s) ==
    [configured |-> s.surface.configured, width |-> s.surface.width,
     height |-> s.surface.height]

CallIdx(cs, op) == {i \in 1 .. Len(cs) : cs[i].op = op}
SurfaceOps == {"get_current_texture", "submit", "present"}
WindowEventKinds == {"CloseRequested", "Resized", "RedrawRequested",
                     "KeyboardInput", "CursorMoved", "Focused"}

\* The State a callback works on, as it was before the callback ran.
Prior == IF lastEvent'.kind = "user_event" THEN inflight ELSE state

\* ----------------------------------------------------------------- claims
\* C1: no surface-texture acquisition, command submission or present is made
\* on a surface on which surface.configure has not been called before.
C1_ConfiguredBeforeUse ==
    \A i \in 1 .. Len(calls) :
        calls[i].op \in SurfaceOps => calls[i].configured

C1_Witness ==
    /\ HasCall(calls, "present")
    /\ state # None
    /\ state.surface.configured

\* C2: resize(w, h) with w > 0 and h > 0 stores width = w and height = h, sets
\* is_surface_configured, configures the surface exactly once with that
\* configuration and leaves every other field as it was.
C2_ResizePositive ==
    [][\A i \in CallIdx(calls', "resize") :
          (calls'[i].a > 0 /\ calls'[i].b > 0) =>
             /\ Fields(state') =
                  [Fields(Prior) EXCEPT !.config.width = calls'[i].a,
                                        !.config.height = calls'[i].b,
                                        !.is_surface_configured = TRUE]
             /\ SurfaceConfig(state') =
                  [configured |-> TRUE, width |-> calls'[i].a, height |-> calls'[i].b]
             /\ Cardinality(CallIdx(calls', "configure")) = 1
             /\ \A j \in CallIdx(calls', "configure") :
                   /\ j > i
                   /\ calls'[j].a = calls'[i].a
                   /\ calls'[j].b = calls'[i].b
                   /\ calls'[j].win = calls'[i].win]_vars

C2_Witness ==
    /\ lastEvent.kind = "Resized"
    /\ lastEvent.a = 1 /\ lastEvent.b = 2
    /\ state # None
    /\ state.config.width = 1 /\ state.config.height = 2
    /\ state.is_surface_configured
    /\ HasCall(calls, "configure")

\* C3: resize(w, h) with w = 0 or h = 0 is a no-op: every field, the
\* configured flag included, keeps its value and surface.configure is not called.
C3_ResizeZeroNoOp ==
    [][\A i \in CallIdx(calls', "resize") :
          (calls'[i].a = 0 \/ calls'[i].b = 0) =>
             /\ Fields(state') = Fields(Prior)
             /\ SurfaceConfig(state') = SurfaceConfig(Prior)
             /\ ~ HasCall(calls', "configure")]_vars

C3_Witness ==
    /\ lastEvent.kind = "Resized"
    /\ lastEvent.a = 1 /\ lastEvent.b = 0
    /\ state # None
    /\ state.is_surface_configured
    /\ state.config.width = InitWidth
    /\ HasCall(calls, "resize")

\* C4: render on a State whose is_surface_configured is false returns Ok,
\* makes no acquisition, submission or present, and changes nothing.
C4_RenderUnconfigured ==
    [][(HasCall(calls', "render") /\ ~ state.is_surface_configured) =>
          /\ Fields(state') = Fields(state)
          /\ SurfaceConfig(state') = SurfaceConfig(state)
          /\ \A i \in 1 .. Len(calls') :
                calls'[i].op \notin SurfaceOps \cup
                    {"configure", "resize", "begin_render_pass", "draw", "log_error"}
          /\ \A i \in CallIdx(calls', "return") : calls'[i].res = "Ok"
          /\ Cardinality(CallIdx(calls', "return")) = 1]_vars

C4_Witness ==
    /\ lastEvent.kind = "RedrawRequested"
    /\ HasCall(calls, "render")
    /\ state # None
    /\ ~ state.is_surface_configured

\* C5: when the render of a RedrawRequested event fails with Lost or
\* Outdated, resize is called exactly once, with the window's current inner
\* size, and render is not called again while handling that event.
C5_RecoveryResizesOnce ==
    \A i \in CallIdx(calls, "return") :
        calls[i].res \in {"Lost", "Outdated"} =>
            /\ lastEvent.kind = "RedrawRequested"
            /\ Cardinality(CallIdx(calls, "resize")) = 1
            /\ \A j \in CallIdx(calls, "resize") :
                  /\ j > i
                  /\ calls[j].a = winSize[calls[i].win].width
                  /\ calls[j].b = winSize[calls[i].win].height
                  /\ calls[j].win = calls[i].win
            /\ Cardinality(CallIdx(calls, "render")) = 1
            /\ Cardinality(CallIdx(calls, "get_current_texture")) = 1

C5_Witness ==
    /\ \E i \in CallIdx(calls, "return") : calls[i].res = "Outdated"
    /\ \E j \in CallIdx(calls, "resize") :
          /\ calls[j].a = 1 /\ calls[j].b = 2
          /\ winSize[1] = [width |-> 1, height |-> 2]
    /\ \E j \in CallIdx(calls, "get_current_texture") :
          calls[j].configured

\* C6: a keyboard event dispatched to a Render State signals exit exactly
\* once when it is Escape pressed, and not at all for any other key code or
\* for Escape released.
C6_EscapeExitsOnce ==
    lastEvent.kind = "KeyboardInput" =>
        /\ Cardinality(CallIdx(calls, "exit")) =
              IF state # None /\ lastEvent.code = "Escape" /\ lastEvent.pressed
              THEN 1 ELSE 0
        /\ HasCall(calls, "exit") => exiting

C6_Witness ==
    /\ lastEvent.kind = "KeyboardInput"
    /\ lastEvent.code = "Escape" /\ lastEvent.pressed
    /\ Cardinality(CallIdx(calls, "exit")) = 1
    /\ exiting

\* C7: a window event is applied to the Render State of the window it is
\* addressed to only: an event addressed to window2, for which no Render
\* State is routed, is dropped, and no event reaches another window's State.
C7_EventsRoutedByWindow ==
    lastEvent.kind \in WindowEventKinds =>
        /\ \A i \in 1 .. Len(calls) : calls[i].win \in {0, lastEvent.win}
        /\ lastEvent.win = 2 => ~ HasCall(calls, "exit")

\* C8: CloseRequested only logs: no exit is signalled, the windows stay and
\* no Render State changes; an exit signal comes from an Escape key-down only.
C8_CloseOnlyLogs ==
    [][/\ lastEvent'.kind = "CloseRequested" =>
             /\ state' = state
             /\ state2' = state2
             /\ exiting' = exiting
             /\ phase' = phase
             /\ winSize' = winSize
             /\ \A i \in 1 .. Len(calls') : calls'[i].op = "println"
       /\ (exiting' /\ ~ exiting) =>
             /\ lastEvent'.kind = "KeyboardInput"
             /\ lastEvent'.code = "Escape"
             /\ lastEvent'.pressed]_vars

C8_Witness ==
    /\ lastEvent.kind = "CloseRequested"
    /\ calls = << Call("println", 0, 0, 0, "") >>
    /\ phase = "running"
    /\ ~ exiting

\* C9: the Render State of window2 is never used after construction: no
\* method is called on it, it stays as State::new built it and its surface
\* is never configured, acquired from or presented to.
C9_State2Untouched ==
    state2 # None =>
        /\ state2 = State_new(2, RequestedSize, TRUE)
        /\ ~ state2.is_surface_configured
        /\ \A i \in 1 .. Len(calls) : calls[i].win # 2

C9_Witness ==
    /\ state2 # None
    /\ lastEvent.kind = "Resized"
    /\ lastEvent.win = 2
    /\ lastEvent.a = 1 /\ lastEvent.b = 2
    /\ ~ state2.is_surface_configured

\* C10 as stated: after a Lost or Outdated failure the surface is configured
\* again before the next acquisition, whatever size the window has; so no
\* acquisition is made on a surface still Lost or Outdated.
C10_NoAcquireWhileStale ==
    \A i \in CallIdx(calls, "get_current_texture") : ~ calls[i].stale

\* C10 amended: when render fails with Lost or Outdated and the window's
\* current size has positive width and height, surface.configure is called
\* with that size while the same event is handled, so before the next
\* acquisition; when the width or the height is 0 the surface is not
\* configured again and stays as it was.
C10_ReconfiguredWhenNonZero ==
    \A i \in CallIdx(calls, "return") :
        calls[i].res \in {"Lost", "Outdated"} =>
            LET size == winSize[calls[i].win]
            IN IF size.width > 0 /\ size.height > 0
               THEN /\ \E j \in CallIdx(calls, "configure") :
                          /\ j > i
                          /\ calls[j].a = size.width
                          /\ calls[j].b = size.height
                          /\ calls[j].win = calls[i].win
                    /\ ~ state.surface.stale
                    /\ SurfaceConfig(state) =
                          [configured |-> TRUE, width |-> size.width,
                           height |-> size.height]
               ELSE /\ ~ HasCall(calls, "configure")
                    /\ state.surface.stale

C10_Witness ==
    /\ \E i \in CallIdx(calls, "return") : calls[i].res = "Lost"
    /\ \E j \in CallIdx(calls, "configure") : calls[j].a = 1 /\ calls[j].b = 2
    /\ state # None
    /\ ~ state.surface.stale

\* C11: when render fails with an error other than Lost or Outdated the
\* shell logs it once and does nothing else: no resize, no configure, no
\* frame, no exit signal; the loop keeps running and the Render State's
\* configuration, configured flag and clear color stay as they were.
C11_OtherErrorOnlyLogged ==
    [][\A i \in CallIdx(calls', "return") :
          calls'[i].res \in SurfaceErrors \ {"Lost", "Outdated"} =>
             /\ Fields(state') = Fields(state)
             /\ SurfaceConfig(state') = SurfaceConfig(state)
             /\ Cardinality(CallIdx(calls', "log_error")) = 1
             /\ \A j \in CallIdx(calls', "log_error") :
                   j > i /\ calls'[j].res = calls'[i].res
             /\ \A j \in 1 .. Len(calls') :
                   calls'[j].op \notin {"resize", "configure", "exit",
                                        "submit", "present"}
             /\ exiting' = exiting
             /\ phase' = "running"]_vars

C11_Witness ==
    /\ lastEvent.kind = "RedrawRequested"
    /\ \E i \in CallIdx(calls, "return") : calls[i].res = "OutOfMemory"
    /\ HasCall(calls, "log_error")
    /\ phase = "running"
    /\ ~ exiting
    /\ state.is_surface_configured

RenderFailed ==
    /\ lastEvent.kind = "RedrawRequested"
    /\ \E i \in CallIdx(calls, "return") : calls[i].res \in {"Lost", "Outdated"}

\* C12: a render that failed with Lost or Outdated has left a redraw request
\* pending, and, requested redraws being delivered, it is followed by another
\* render call on the same State unless exit is signalled; this holds after
\* any number of failures in a row, no state counts or stops the retries.
C12_FailureRetried ==
    /\ [](RenderFailed => redrawPending[state.window])
    /\ \A b \in {0, 1} :
          (RenderFailed /\ attempt = b) ~> (attempt # b \/ exiting)

\* a failed render that itself followed an earlier render call
C12_Witness ==
    /\ RenderFailed
    /\ attempt = 0
    /\ redrawPending[state.window]
    /\ ~ exiting

\* The clear colour State::new gives every Render State.
InitialClearColor == State_new(1, RequestedSize, TRUE).clear_color

\* C13: a CursorMoved event carrying position p stores p as the raw mouse
\* position of the Render State and changes nothing else of it (clear colour,
\* surface configuration and configured flag included); the clear colour of
\* every Render State, and of every render pass begun, is the initial one.
C13_CursorOnlyStoresPosition ==
    [][/\ (lastEvent'.kind = "CursorMoved" /\ state # None) =>
            /\ state' = [state EXCEPT !.mouse_position =
                                         [x |-> lastEvent'.a, y |-> lastEvent'.b]]
            /\ state'.clear_color = state.clear_color
            /\ SurfaceConfig(state') = SurfaceConfig(state)
            /\ state'.is_surface_configured = state.is_surface_configured
       /\ \A s \in {state', state2', inflight'} :
              "clear_color" \in DOMAIN s => s.clear_color = InitialClearColor
       /\ \A i \in CallIdx(calls', "begin_render_pass") :
              calls'[i].color = InitialClearColor]_vars

C13_Witness ==
    /\ lastEvent.kind = "CursorMoved"
    /\ state # None
    /\ state.mouse_position = [x |-> lastEvent.a, y |-> lastEvent.b]
    /\ state.is_surface_configured
    /\ state.clear_color = InitialClearColor

\* C14: when State::new fails for either window during resumed, the error is
\* printed and the process exits with status 1; the failed initialization
\* stores no Render State, and nothing is dispatched afterwards.
C14_InitFailureFatal ==
    /\ \A i \in CallIdx(calls, "State::new") :
          calls[i].res = "Err" =>
             /\ lastEvent.kind = "resumed"
             /\ phase = "exit1"
             /\ Len(calls) = i + 2
             /\ calls[i + 1].op = "println" /\ calls[i + 1].res = "Err"
             /\ calls[i + 2].op = "exit1"
             /\ state2 = None
             /\ calls[i].a = 1 => state = None
             /\ \A s \in {state, state2} \ {None} : s.window # calls[i].a
    /\ phase = "exit1" =>
          /\ lastEvent.kind = "resumed"
          /\ \E i \in CallIdx(calls, "State::new") : calls[i].res = "Err"
          /\ ~ exiting
          /\ \A w \in Windows : ~ redrawPending[w]

C14_Witness ==
    /\ phase = "exit1"
    /\ lastEvent.kind = "resumed"
    /\ state # None
    /\ state2 = None
    /\ \E i \in CallIdx(calls, "State::new") : calls[i].res = "Err" /\ calls[i].a = 2

\* C15: every call of State::render is followed at once by exactly one
\* request_redraw on the window of the same State, whatever the call then
\* returns; so after every RedrawRequested handled for a Render State a
\* redraw of its window is pending.
C15_RenderRequestsRedraw ==
    /\ \A i \in CallIdx(calls, "render") :
          /\ i < Len(calls)
          /\ calls[i + 1].op = "request_redraw"
          /\ calls[i + 1].win = calls[i].win
          /\ \E j \in CallIdx(calls, "return") : j > i
    /\ Cardinality(CallIdx(calls, "request_redraw")) =
          Cardinality(CallIdx(calls, "render"))
          + (IF lastEvent.kind = "user_event" /\ target = "wasm32" THEN 1 ELSE 0)
    /\ (lastEvent.kind = "RedrawRequested" /\ state # None) =>
          /\ Cardinality(CallIdx(calls, "render")) = 1
          /\ \A i \in CallIdx(calls, "render") : calls[i].win = state.window
          /\ redrawPending[state.window]

C15_Witness ==
    /\ lastEvent.kind = "RedrawRequested"
    /\ state # None
    /\ \E i \in CallIdx(calls, "return") : calls[i].res = "Timeout"
    /\ redrawPending[state.window]
    /\ Cardinality(CallIdx(calls, "request_redraw")) = 1

\* The calls State::render made, from its entry to its return.
RenderCalls ==
    LET i == CHOOSE k \in CallIdx(calls, "render") : TRUE
        j == CHOOSE k \in CallIdx(calls, "return") : TRUE
    IN SubSeq(calls, i, j)

Ops(cs) == [k \in 1 .. Len(cs) |-> cs[k].op]

\* C16: render on a configured Render State acquires one surface texture,
\* records one render pass clearing to the current clear colour and drawing 3
\* vertices with the default pipeline, submits once, presents once, in this
\* order, and returns Ok; when the acquisition fails it returns that error
\* and neither submits nor presents.
C16_FrameOrder ==
    (lastEvent.kind = "RedrawRequested" /\ state # None
       /\ state.is_surface_configured) =>
       /\ Cardinality(CallIdx(calls, "render")) = 1
       /\ Cardinality(CallIdx(calls, "return")) = 1
       /\ LET rc == RenderCalls
          IN IF rc[3].res = "Ok"
             THEN /\ Ops(rc) = << "render", "request_redraw", "get_current_texture",
                                  "begin_render_pass", "set_pipeline", "draw",
                                  "submit", "present", "return" >>
                  /\ rc[4].color = state.clear_color
                  /\ rc[5].res = "render_pipeline"
                  /\ rc[6].a = 0 /\ rc[6].b = DrawVertices
                  /\ rc[9].res = "Ok"
                  /\ \A k \in 1 .. Len(calls) :
                        calls[k].op \in {"get_current_texture", "begin_render_pass",
                                         "draw", "submit", "present"} =>
                           \E m \in 1 .. Len(rc) : rc[m] = calls[k]
             ELSE /\ Ops(rc) = << "render", "request_redraw",
                                  "get_current_texture", "return" >>
                  /\ rc[3].res \in SurfaceErrors
                  /\ rc[4].res = rc[3].res
                  /\ \A k \in 1 .. Len(calls) :
                        calls[k].op \notin {"begin_render_pass", "draw",
                                            "submit", "present"}

C16_Witness ==
    /\ lastEvent.kind = "RedrawRequested"
    /\ state # None
    /\ state.is_surface_configured
    /\ HasCall(calls, "present")
    /\ \E i \in CallIdx(calls, "return") : calls[i].res = "Ok"

\* the failed-acquisition case of C16
C16_WitnessFailed ==
    /\ lastEvent.kind = "RedrawRequested"
    /\ state # None
    /\ state.is_surface_configured
    /\ \E i \in CallIdx(calls, "get_current_texture") : calls[i].res = "Lost"
    /\ ~ HasCall(calls, "submit")

\* The resize calls of a callback whose two dimensions are positive.
PositiveResizes(cs) == {i \in CallIdx(cs, "resize") : cs[i].a > 0 /\ cs[i].b > 0}

IsState(s) == "is_surface_configured" \in DOMAIN s

\* C17: a Render State starts with is_surface_configured false; no callback
\* (resize, also with a zero size, render, also when it fails with Lost or
\* Outdated, handle_key, mouse move, update) makes it false again; and while
\* it is true the stored width and height are positive and are the arguments
\* of the last resize call with two positive dimensions.
C17_ConfiguredFlag ==
    [][/\ lastEvent'.kind \in {"resumed", "spawn_local"} =>
            \A s \in {state', state2', inflight'} :
               IsState(s) => ~ s.is_surface_configured
       /\ (IsState(Prior) /\ Prior.is_surface_configured) =>
             (IsState(state') /\ state'.is_surface_configured)
       /\ (IsState(state2) /\ state2.is_surface_configured) =>
             (IsState(state2') /\ state2'.is_surface_configured)
       /\ (IsState(state') /\ state'.is_surface_configured) =>
             /\ state'.config.width > 0
             /\ state'.config.height > 0
             /\ IF PositiveResizes(calls') # {}
                THEN \E i \in PositiveResizes(calls') :
                        /\ \A j \in PositiveResizes(calls') : j <= i
                        /\ state'.config.width = calls'[i].a
                        /\ state'.config.height = calls'[i].b
                ELSE /\ IsState(Prior)
                     /\ Prior.is_surface_configured
                     /\ state'.config = Prior.config]_vars

C17_Witness ==
    /\ RenderFailed
    /\ \E i \in CallIdx(calls, "resize") : calls[i].a = 0
    /\ state.is_surface_configured
    /\ state.config.width > 0
    /\ state.config.height > 0

\* C18: while App holds no primary Render State (state is None), a window
\* event of any kind is dropped: no field of App changes, no call is made
\* (no GPU operation, no redraw request) and no exit is signalled.
C18_DroppedWithoutState ==
    [][(lastEvent'.kind \in WindowEventKinds /\ state = None) =>
          /\ calls' = << >>
          /\ state' = None
          /\ UNCHANGED <<state2, proxy, inflight, exiting, redrawPending, phase,
                         winSize, attempt>>]_vars

C18_Witness ==
    /\ lastEvent.kind = "KeyboardInput"
    /\ lastEvent.code = "Escape"
    /\ lastEvent.pressed
    /\ state = None
    /\ phase = "running"
    /\ ~ exiting
    /\ calls = << >>

====
